---- MODULE Spec2Model ----
(***************************************************************************)
(* The request pipeline of the API gateway of src/main.go: the handler     *)
(* stack that main() registers on the fiber application (helmet, cors,     *)
(* logger, limiter, the embedded file server, the /v1 group with           *)
(* authMiddleware, the two proxy handlers and /status), run per request.   *)
(*                                                                         *)
(* Strings are sequences of tokens ("/" is a token of its own), so that    *)
(* concatenation is \o and prefix stripping is a SubSeq.                   *)
(***************************************************************************)
EXTENDS Integers, Sequences, FiniteSets, TLC

VARIABLES
    cfg,        \* the deployment: environment variables and the embedded tree
    now,        \* the limiter's clock, in seconds
    store,      \* the limiter's storage: client key -> [hits, exp]
    mux,        \* the limiter's mutex: the slot holding it, or NoHolder
    pc,         \* per slot: the handler the request is at
    req,        \* per slot: the inbound request
    resp,       \* per slot: the response being built
    invoked,    \* per slot: the handlers that ran for the request
    e,          \* per slot: the limiter's local copy of the client's entry
    fwd,        \* per slot: the call handed to proxy.Do, or NoCall
    calls,      \* per slot: how many times proxy.Do was called for the request
    logs,       \* per slot: the log lines written for the request, in order
    gStart,     \* history: per client, when its current window was opened
    gCount,     \* history: per client, requests counted in the current window
    gAdmitted,  \* history: per client, requests the limiter let pass in it
    gRejected,  \* history: per client, requests the limiter refused in it
    quota       \* history: per slot, whether the request is within the first
                \* Max of its client's window ("within"), beyond ("over"),
                \* or not counted yet ("none")

vars == <<cfg, now, store, mux, pc, req, resp, invoked, e, fwd, calls, logs,
          gStart, gCount, gAdmitted, gRejected, quota>>

-----------------------------------------------------------------------------
(* Program constants *)

Max == 50

Expiration == 60

StatusOK == 200

StatusNoContent == 204

StatusUnauthorized == 401

StatusForbidden == 403

StatusNotFound == 404

StatusMethodNotAllowed == 405

StatusRequestEntityTooLarge == 413

StatusTooManyRequests == 429

StatusInternalServerError == 500

\* fiber.Config.BodyLimit, in bytes.
BodyLimit == 2 * 1024 * 1024

(* Bounds of the model *)

MaxOver == 2

MaxTime == 60

NumSlots == 2

-----------------------------------------------------------------------------
(* Strings *)

Slash == <<"/">>

HasPrefix(s, pre) ==
    /\ Len(s) >= Len(pre)
    /\ SubSeq(s, 1, Len(pre)) = pre

TrimPrefix(s, pre) ==
    IF HasPrefix(s, pre) THEN SubSeq(s, Len(pre) + 1, Len(s)) ELSE s

\* The tokens after the first "?" of a URI; empty when it has none.
RECURSIVE QueryOf(_)
QueryOf(uri) ==
    IF uri = <<>> THEN <<>>
    ELSE IF Head(uri) = "?" THEN Tail(uri)
    ELSE QueryOf(Tail(uri))

PathIndex == <<"/">>
PathDashboard == <<"/", "dashboard", "/", "settings">>
PathStatus == <<"/", "status">>
PathWa == <<"/", "v1", "/", "wa", "/", "foo", "/", "bar">>
PathMail == <<"/", "v1", "/", "mail", "/", "send">>
PathV1Other == <<"/", "v1", "/", "other">>

PrefixV1 == <<"/", "v1">>
PrefixWa == <<"/", "v1", "/", "wa", "/">>
PrefixMail == <<"/", "v1", "/", "mail", "/">>

IndexFile == <<"/", "index.html">>

-----------------------------------------------------------------------------
(* Deployments: what godotenv/os.Getenv and the embedded tree can hold *)

SecretSet == "s3cret"

Envs ==
    { [wa |-> <<"http://wa">>, mail |-> <<"http://mail">>, secret |-> SecretSet],
      [wa |-> <<>>,            mail |-> <<"http://mail">>, secret |-> SecretSet],
      [wa |-> <<"http://wa">>, mail |-> <<"http://mail">>, secret |-> ""] }

Bundles ==
    { {IndexFile},
      {IndexFile, PathStatus, PathWa} }

Deployments ==
    { [wa |-> en.wa, mail |-> en.mail, secret |-> en.secret, bundle |-> b] :
        en \in Envs, b \in Bundles }

DefaultDeployment ==
    [wa |-> <<"http://wa">>, mail |-> <<"http://mail">>, secret |-> SecretSet,
     bundle |-> {IndexFile}]

-----------------------------------------------------------------------------
(* Requests *)

Clients == {"ipA", "ipB"}

Methods == {"GET", "POST", "OPTIONS"}

Keys == {"", "wrong", SecretSet}

Queries == {<<>>, <<"x=1">>}

\* A POST carries a body, a GET or a preflight none.
BodyOf(method) == IF method = "POST" THEN "payload" ELSE ""

\* The body sizes in bytes: a POST body is as large as the limit allows or one
\* byte larger.
SizesOf(method) == IF method = "POST" THEN {BodyLimit, BodyLimit + 1} ELSE {0}

Payloads ==
    UNION { { [method |-> m, body |-> BodyOf(m), size |-> z] : z \in SizesOf(m) } :
            m \in Methods }

\* An OPTIONS request of the model is a CORS preflight (it carries Origin and
\* Access-Control-Request-Method).
Shapes(clients) ==
    { [client |-> c, method |-> w.method, path |-> p, query |-> q, key |-> k,
       body |-> w.body, size |-> w.size] :
        c \in clients, w \in Payloads,
        p \in {PathIndex, PathDashboard, PathStatus, PathWa, PathMail, PathV1Other},
        q \in Queries, k \in Keys }

NoReq == [client |-> "", method |-> "", path |-> <<>>, query |-> <<>>,
          key |-> "", body |-> "", size |-> 0]

NoCall == [uri |-> <<>>, method |-> "", body |-> ""]

NoBody == [kind |-> "none", of |-> <<>>]

FreshResp == [status |-> StatusOK, body |-> NoBody]

NoEntry == [hits |-> 0, exp |-> 0]

NoHolder == 0

NoTime == 0 - 1

Slots == 1 .. NumSlots

-----------------------------------------------------------------------------
(* The embedded file tree *)

\* A directory of the tree: the root, or a proper ancestor of a bundled file.
IsDir(bundle, path) ==
    \/ path = Slash
    \/ \E f \in bundle : Len(f) > Len(path) /\ HasPrefix(f, path \o Slash)

\* The index document filesystem.New looks for in a directory (Index).
IndexIn(path) == IF path = Slash THEN IndexFile ELSE path \o IndexFile

\* What filesystem.New's handler finds for a path: the file it serves, a
\* directory without an index (Browse is off), or nothing (no NotFoundFile is
\* configured, so there is no fallback document).
FsLookup(bundle, path) ==
    IF path \in bundle THEN [kind |-> "file", of |-> path]
    ELSE IF IsDir(bundle, path)
         THEN IF IndexIn(path) \in bundle
              THEN [kind |-> "file", of |-> IndexIn(path)]
              ELSE [kind |-> "forbidden", of |-> path]
         ELSE [kind |-> "missing", of |-> path]

-----------------------------------------------------------------------------
(* The handler stack, in the order main() registers it *)

StackAuthFirst ==
    <<"helmet", "cors", "logger", "auth", "limiter", "static", "wa", "mail",
      "status">>

StackLimiterLate ==
    <<"helmet", "cors", "logger", "static", "limiter", "auth", "wa", "mail",
      "status">>

Stack ==
    <<"helmet", "cors", "logger", "limiter", "static", "auth", "wa", "mail",
      "status">>

\* Whether the route of a handler matches the request (fiber's Route.match).
Matches(h, r) ==
    CASE h \in {"helmet", "cors", "logger", "limiter", "static"} -> TRUE
      [] h = "auth"   -> HasPrefix(r.path, PrefixV1)
      [] h = "wa"     -> HasPrefix(r.path, PrefixWa)
      [] h = "mail"   -> HasPrefix(r.path, PrefixMail)
      [] h = "status" -> r.path = PathStatus /\ r.method = "GET"
      [] OTHER        -> FALSE

\* c.Next(): the first handler after position i whose route matches, or
\* "noroute" when the stack is exhausted.
RECURSIVE NextFrom(_, _)
NextFrom(i, r) ==
    IF i > Len(Stack) THEN "noroute"
    ELSE IF Matches(Stack[i], r) THEN Stack[i]
    ELSE NextFrom(i + 1, r)

IndexInStack(h) == CHOOSE i \in 1 .. Len(Stack) : Stack[i] = h

NextHandler(h, r) == NextFrom(IndexInStack(h) + 1, r)

\* A path some route registered with a method (not a Use) matches for another
\* method: fiber answers 405 instead of 404.
MethodExist(r) == r.path = PathStatus /\ r.method # "GET"

-----------------------------------------------------------------------------
(* The limiter (limiter.New, fixed window) *)

\* The entry after the window check and the increment.
HitStrict(en, ts) ==
    LET w == IF en.exp = 0 THEN [hits |-> en.hits, exp |-> ts + Expiration]
             ELSE IF ts > en.exp THEN [hits |-> 0, exp |-> ts + Expiration]
             ELSE en
    IN  [w EXCEPT !.hits = @ + 1]

Hit(en, ts) ==
    LET w == IF en.exp = 0 THEN [hits |-> en.hits, exp |-> ts + Expiration]
             ELSE IF ts >= en.exp THEN [hits |-> 0, exp |-> ts + Expiration]
             ELSE en
    IN  [w EXCEPT !.hits = @ + 1]

\* The storage key of a request: KeyGenerator returns c.IP().
KeyGeneratorShared(r) == "ipA"

KeyGenerator(r) == r.client

LimitReachedOff(en) == Max - en.hits < 0 - 1

LimitReached(en) == Max - en.hits < 0

MuxFreeAlways == TRUE

MuxFree == mux = NoHolder

\* History: the window a request arriving at ts falls in.
WindowOpen(c, ts) == gStart[c] # NoTime /\ ts - gStart[c] < Expiration

CountInWindow(c, ts) == IF WindowOpen(c, ts) THEN gCount[c] ELSE 0

-----------------------------------------------------------------------------
(* The authenticator *)

KeyRejectedNoEmptyCheck(key, secret) == key # secret

KeyRejected(key, secret) == key = "" \/ key # secret

-----------------------------------------------------------------------------
(* Initial states *)

InitWith(deployments) ==
    /\ cfg \in deployments
    /\ now = 0
    /\ store = [c \in Clients |-> NoEntry]
    /\ mux = NoHolder
    /\ pc = [p \in Slots |-> "idle"]
    /\ req = [p \in Slots |-> NoReq]
    /\ resp = [p \in Slots |-> FreshResp]
    /\ invoked = [p \in Slots |-> {}]
    /\ e = [p \in Slots |-> NoEntry]
    /\ fwd = [p \in Slots |-> NoCall]
    /\ calls = [p \in Slots |-> 0]
    /\ logs = [p \in Slots |-> <<>>]
    /\ gStart = [c \in Clients |-> NoTime]
    /\ gCount = [c \in Clients |-> 0]
    /\ gAdmitted = [c \in Clients |-> 0]
    /\ gRejected = [c \in Clients |-> 0]
    /\ quota = [p \in Slots |-> "none"]

Init == InitWith(Deployments)

-----------------------------------------------------------------------------
(* Steps of a request *)

limiterVars == <<store, mux, e, gStart, gCount, gAdmitted, gRejected, quota>>

\* The handler at h ran and called c.Next().
Pass(p, h) ==
    /\ invoked' = [invoked EXCEPT ![p] = @ \cup {h}]
    /\ pc' = [pc EXCEPT ![p] = NextHandler(h, req[p])]

\* Where a request is once the last handler of its chain has returned: the
\* handlers that called c.Next() resume, and of those only logger.New does
\* anything then (it writes the access line).
ChainEnd(inv) == IF "logger" \in inv THEN "logging" ELSE "done"

\* The handler at h ran and returned without c.Next(): the response is final.
Stop(p, h) ==
    /\ invoked' = [invoked EXCEPT ![p] = @ \cup {h}]
    /\ pc' = [pc EXCEPT ![p] = ChainEnd(invoked[p] \cup {h})]

\* The server refuses a request whose body is larger than fiber.Config.BodyLimit
\* while it reads it.
TooLargeDefaultLimit(r) == r.size > 4 * 1024 * 1024

TooLarge(r) == r.size > BodyLimit

\* A connection delivers a request; a client sends at most Max + MaxOver of
\* them per window. A request whose body is too large is answered 413 by the
\* server before any handler of the stack runs.
Receive(p, shapes) ==
    /\ pc[p] = "idle"
    /\ \E r \in shapes :
        /\ CountInWindow(r.client, now) < Max + MaxOver
        /\ req' = [req EXCEPT ![p] = r]
        /\ IF TooLarge(r)
           THEN /\ pc' = [pc EXCEPT ![p] = "done"]
                /\ resp' = [resp EXCEPT ![p] =
                              [status |-> StatusRequestEntityTooLarge,
                               body |-> [kind |-> "error", of |-> <<>>]]]
           ELSE /\ pc' = [pc EXCEPT ![p] = Stack[1]]
                /\ resp' = [resp EXCEPT ![p] = FreshResp]
    /\ invoked' = [invoked EXCEPT ![p] = {}]
    /\ fwd' = [fwd EXCEPT ![p] = NoCall]
    /\ calls' = [calls EXCEPT ![p] = 0]
    /\ logs' = [logs EXCEPT ![p] = <<>>]
    /\ quota' = [quota EXCEPT ![p] = "none"]
    /\ UNCHANGED <<cfg, now, store, mux, e, gStart, gCount, gAdmitted, gRejected>>

\* helmet.New(): security headers, never rejects.
Helmet(p) ==
    /\ pc[p] = "helmet"
    /\ Pass(p, "helmet")
    /\ UNCHANGED <<cfg, now, req, resp, fwd, calls, logs, limiterVars>>

\* cors.New(): a preflight is answered 204 at once, anything else goes on.
Cors(p) ==
    /\ pc[p] = "cors"
    /\ IF req[p].method = "OPTIONS"
       THEN /\ Stop(p, "cors")
            /\ resp' = [resp EXCEPT ![p] = [status |-> StatusNoContent,
                                            body |-> NoBody]]
       ELSE /\ Pass(p, "cors")
            /\ UNCHANGED resp
    /\ UNCHANGED <<cfg, now, req, fwd, calls, logs, limiterVars>>

\* logger.New(): calls c.Next() and writes the access line afterwards.
Logger(p) ==
    /\ pc[p] = "logger"
    /\ Pass(p, "logger")
    /\ UNCHANGED <<cfg, now, req, resp, fwd, calls, logs, limiterVars>>

\* limiter.New(): mux.Lock().
LimiterLock(p) ==
    /\ pc[p] = "limiter"
    /\ MuxFree
    /\ mux' = p
    /\ invoked' = [invoked EXCEPT ![p] = @ \cup {"limiter"}]
    /\ pc' = [pc EXCEPT ![p] = "lim_get"]
    /\ UNCHANGED <<cfg, now, req, resp, fwd, calls, logs, store, e,
                   gStart, gCount, gAdmitted, gRejected, quota>>

\* e := manager.get(key), the window check against the clock, e.currHits++.
\* The history counts the request in the client's window here, where the code
\* reads the clock.
LimiterGet(p) ==
    LET c == req[p].client
        open == WindowOpen(c, now)
        n == CountInWindow(c, now) + 1
    IN  /\ pc[p] = "lim_get"
        /\ e' = [e EXCEPT ![p] = Hit(store[KeyGenerator(req[p])], now)]
        /\ gStart' = [gStart EXCEPT ![c] = IF open THEN @ ELSE now]
        /\ gCount' = [gCount EXCEPT ![c] = n]
        /\ gAdmitted' = [gAdmitted EXCEPT ![c] = IF open THEN @ ELSE 0]
        /\ gRejected' = [gRejected EXCEPT ![c] = IF open THEN @ ELSE 0]
        /\ quota' = [quota EXCEPT ![p] = IF n <= Max THEN "within" ELSE "over"]
        /\ pc' = [pc EXCEPT ![p] = "lim_set"]
        /\ UNCHANGED <<cfg, now, req, resp, invoked, fwd, calls, logs, store, mux>>

\* manager.set(key, e, cfg.Expiration).
LimiterSet(p) ==
    /\ pc[p] = "lim_set"
    /\ store' = [store EXCEPT ![KeyGenerator(req[p])] = e[p]]
    /\ pc' = [pc EXCEPT ![p] = "lim_unlock"]
    /\ UNCHANGED <<cfg, now, req, resp, invoked, fwd, calls, logs, mux, e,
                   gStart, gCount, gAdmitted, gRejected, quota>>

\* mux.Unlock(), then LimitReached (429, no c.Next()) or c.Next().
LimiterUnlock(p) ==
    LET c == req[p].client
    IN  /\ pc[p] = "lim_unlock"
        /\ mux' = NoHolder
        /\ e' = [e EXCEPT ![p] = NoEntry]
        /\ IF LimitReached(e[p])
           THEN /\ resp' = [resp EXCEPT ![p] = [status |-> StatusTooManyRequests,
                                                body |-> [kind |-> "too_many",
                                                          of |-> <<>>]]]
                /\ pc' = [pc EXCEPT ![p] = ChainEnd(invoked[p])]
                /\ gRejected' = [gRejected EXCEPT ![c] = @ + 1]
                /\ UNCHANGED gAdmitted
           ELSE /\ pc' = [pc EXCEPT ![p] = NextHandler("limiter", req[p])]
                /\ gAdmitted' = [gAdmitted EXCEPT ![c] = @ + 1]
                /\ UNCHANGED <<resp, gRejected>>
        /\ UNCHANGED <<cfg, now, req, invoked, fwd, calls, logs, store,
                       gStart, gCount, quota>>

\* filesystem.New() on "/": serves GET from the embedded tree; a path that is not
\* in it gets status 404 and c.Next().
Filesystem(p) ==
    LET f == FsLookup(cfg.bundle, req[p].path)
    IN  /\ pc[p] = "static"
        /\ IF req[p].method # "GET"
           THEN /\ Pass(p, "static")
                /\ UNCHANGED resp
           ELSE CASE f.kind = "file" ->
                       /\ Stop(p, "static")
                       /\ resp' = [resp EXCEPT ![p] = [status |-> StatusOK,
                                                       body |-> f]]
                  [] f.kind = "forbidden" ->
                       /\ Stop(p, "static")
                       /\ resp' = [resp EXCEPT ![p] = [status |-> StatusForbidden,
                                                       body |-> [kind |-> "error",
                                                                 of |-> <<>>]]]
                  [] OTHER ->
                       /\ Pass(p, "static")
                       /\ resp' = [resp EXCEPT ![p].status = StatusNotFound]
        /\ UNCHANGED <<cfg, now, req, fwd, calls, logs, limiterVars>>

\* The line authMiddleware logs for a rejected request: it names c.IP().
AlertLine(r) == [kind |-> "alert", text |-> <<r.client>>]

\* authMiddleware: a rejected request is logged, then answered 401.
AuthMiddleware(p) ==
    /\ pc[p] = "auth"
    /\ IF KeyRejected(req[p].key, cfg.secret)
       THEN /\ logs' = [logs EXCEPT ![p] = Append(@, AlertLine(req[p]))]
            /\ Stop(p, "auth")
            /\ resp' = [resp EXCEPT ![p] = [status |-> StatusUnauthorized,
                                            body |-> [kind |-> "denied",
                                                      of |-> <<>>]]]
       ELSE /\ Pass(p, "auth")
            /\ UNCHANGED <<resp, logs>>
    /\ UNCHANGED <<cfg, now, req, fwd, calls, limiterVars>>

\* c.Params("*") of a route prefix/*.
Params(path, prefix) == TrimPrefix(path, prefix)

TargetKeepPrefix(base, path, prefix) == base \o path

Target(base, path, prefix) == base \o Slash \o Params(path, prefix)

\* proxy.Do(c, addr): the inbound request with its URI replaced by addr.
ProxyDoDropBody(r, addr) == [uri |-> addr, method |-> r.method, body |-> ""]

ProxyDo(r, addr) == [uri |-> addr, method |-> r.method, body |-> r.body]

\* The line a proxy handler logs before it calls the upstream.
ForwardLine(target) == [kind |-> "forward", text |-> target]

\* A proxy handler: builds the target, logs it and calls proxy.Do once.
Forward(p, h, base, prefix) ==
    /\ pc[p] = h
    /\ logs' = [logs EXCEPT ![p] =
                  Append(@, ForwardLine(Target(base, req[p].path, prefix)))]
    /\ fwd' = [fwd EXCEPT ![p] = ProxyDo(req[p], Target(base, req[p].path, prefix))]
    /\ calls' = [calls EXCEPT ![p] = @ + 1]
    /\ invoked' = [invoked EXCEPT ![p] = @ \cup {h, "proxy"}]
    /\ pc' = [pc EXCEPT ![p] = "proxying"]
    /\ UNCHANGED <<cfg, now, req, resp, limiterVars>>

\* The /wa/* handler of the /v1 group.
WaHandler(p) == Forward(p, "wa", cfg.wa, PrefixWa)

\* The /mail/* handler of the /v1 group.
MailHandler(p) == Forward(p, "mail", cfg.mail, PrefixMail)

\* The statuses an upstream answers with: proxy.Do relays whichever it is.
UpstreamStatuses == {StatusOK, StatusInternalServerError, 503}

\* How proxy.Do ends: the upstream answered with a status, or the call failed
\* (connection refused, no such host, a target the client cannot dial).
ProxyOutcomes ==
    [reached : {TRUE}, status : UpstreamStatuses]
        \cup [reached : {FALSE}, status : {0}]

\* Where the request goes when proxy.Do has returned: the handler returns its
\* result, whatever it is, and the chain ends.
AfterCallRetry(o, inv) ==
    IF o.reached THEN ChainEnd(inv)
    ELSE IF "wa" \in inv THEN "wa" ELSE "mail"

AfterCall(o, inv) == ChainEnd(inv)

\* proxy.Do returns: the upstream's response is relayed as it is, or the call
\* failed and the handler returns the error, which fiber's default ErrorHandler
\* answers with 500 and the error text.
UpstreamReply(p) ==
    /\ pc[p] = "proxying"
    /\ \E o \in ProxyOutcomes :
        /\ resp' = [resp EXCEPT ![p] =
               IF o.reached
               THEN [status |-> o.status,
                     body |-> [kind |-> "upstream", of |-> fwd[p].uri]]
               ELSE [status |-> StatusInternalServerError,
                     body |-> [kind |-> "error", of |-> <<>>]]]
        /\ pc' = [pc EXCEPT ![p] = AfterCall(o, invoked[p])]
    /\ UNCHANGED <<cfg, now, req, invoked, fwd, calls, logs, limiterVars>>

\* The /status handler: c.JSON sets the body and the content type, not the status.
StatusHandler(p) ==
    /\ pc[p] = "status"
    /\ Stop(p, "status")
    /\ resp' = [resp EXCEPT ![p].body = [kind |-> "status_json", of |-> <<>>]]
    /\ UNCHANGED <<cfg, now, req, fwd, calls, logs, limiterVars>>

\* No handler is left: fiber's "Cannot <method> <path>" (or 405).
NoRoute(p) ==
    /\ pc[p] = "noroute"
    /\ resp' = [resp EXCEPT ![p] =
                  [status |-> IF MethodExist(req[p]) THEN StatusMethodNotAllowed
                              ELSE StatusNotFound,
                   body |-> [kind |-> "error", of |-> <<>>]]]
    /\ pc' = [pc EXCEPT ![p] = ChainEnd(invoked[p])]
    /\ UNCHANGED <<cfg, now, req, invoked, fwd, calls, logs, limiterVars>>

\* The line logger.New writes for a request.
AccessLine(r, status) ==
    [kind |-> "access", text |-> <<ToString(status), r.method>> \o r.path]

\* logger.New after c.Next() has returned: it writes the access line of the
\* request, whatever the handlers after it answered.
LoggerWrite(p) ==
    /\ pc[p] = "logging"
    /\ logs' = [logs EXCEPT ![p] = Append(@, AccessLine(req[p], resp[p].status))]
    /\ pc' = [pc EXCEPT ![p] = "done"]
    /\ UNCHANGED <<cfg, now, req, resp, invoked, fwd, calls, limiterVars>>

\* The response is written and the connection takes the next request.
Finish(p) ==
    /\ pc[p] = "done"
    /\ pc' = [pc EXCEPT ![p] = "idle"]
    /\ req' = [req EXCEPT ![p] = NoReq]
    /\ resp' = [resp EXCEPT ![p] = FreshResp]
    /\ invoked' = [invoked EXCEPT ![p] = {}]
    /\ fwd' = [fwd EXCEPT ![p] = NoCall]
    /\ calls' = [calls EXCEPT ![p] = 0]
    /\ logs' = [logs EXCEPT ![p] = <<>>]
    /\ quota' = [quota EXCEPT ![p] = "none"]
    /\ UNCHANGED <<cfg, now, store, mux, e, gStart, gCount, gAdmitted, gRejected>>

\* Time passes.
Tick ==
    /\ \E d \in {Expiration - 1, Expiration} :
        /\ now + d <= MaxTime
        /\ now' = now + d
    /\ UNCHANGED <<cfg, store, mux, pc, req, resp, invoked, e, fwd, calls, logs,
                   gStart, gCount, gAdmitted, gRejected, quota>>

-----------------------------------------------------------------------------
(* Specifications *)

\* One connection, one client address, every request shape, every deployment.
PipelineShapes == Shapes({"ipA"})

Next ==
    \/ Receive(1, PipelineShapes)
    \/ Helmet(1)
    \/ Cors(1)
    \/ Logger(1)
    \/ LimiterLock(1)
    \/ LimiterGet(1)
    \/ LimiterSet(1)
    \/ LimiterUnlock(1)
    \/ Filesystem(1)
    \/ AuthMiddleware(1)
    \/ WaHandler(1)
    \/ MailHandler(1)
    \/ UpstreamReply(1)
    \/ StatusHandler(1)
    \/ NoRoute(1)
    \/ LoggerWrite(1)
    \/ Finish(1)

Spec == Init /\ [][Next]_vars

\* The requests the limiter specifications send: GET /status without a key.
Probes(clients) ==
    { r \in Shapes(clients) :
        r.method = "GET" /\ r.path = PathStatus /\ r.query = <<>> /\ r.key = "" }

LimiterProbes == Probes(Clients)

ConcProbes == Probes({"ipA"})

InitLimiter == InitWith({DefaultDeployment})

\* One connection, two client addresses, the clock runs.
NextLimiter ==
    \/ Receive(1, LimiterProbes)
    \/ Helmet(1)
    \/ Cors(1)
    \/ Logger(1)
    \/ LimiterLock(1)
    \/ LimiterGet(1)
    \/ LimiterSet(1)
    \/ LimiterUnlock(1)
    \/ Filesystem(1)
    \/ StatusHandler(1)
    \/ LoggerWrite(1)
    \/ Finish(1)
    \/ Tick

SpecLimiter == InitLimiter /\ [][NextLimiter]_vars

\* Concurrent connections of one client address.
NextConc ==
    \E p \in Slots :
        \/ Receive(p, ConcProbes)
        \/ Helmet(p)
        \/ Cors(p)
        \/ Logger(p)
        \/ LimiterLock(p)
        \/ LimiterGet(p)
        \/ LimiterSet(p)
        \/ LimiterUnlock(p)
        \/ Filesystem(p)
        \/ StatusHandler(p)
        \/ LoggerWrite(p)
        \/ Finish(p)

SpecConc == InitLimiter /\ [][NextConc]_vars

\* The requests the quota specification sends: GET /v1/mail/send with a wrong
\* key or the right one.
QuotaProbes ==
    { r \in Shapes({"ipA"}) :
        /\ r.method = "GET"
        /\ r.path = PathMail
        /\ r.query = <<>>
        /\ r.key \in {"wrong", SecretSet} }

\* Concurrent connections of one client address to a route behind
\* authMiddleware.
NextQuota ==
    \E p \in Slots :
        \/ Receive(p, QuotaProbes)
        \/ Helmet(p)
        \/ Cors(p)
        \/ Logger(p)
        \/ LimiterLock(p)
        \/ LimiterGet(p)
        \/ LimiterSet(p)
        \/ LimiterUnlock(p)
        \/ Filesystem(p)
        \/ AuthMiddleware(p)
        \/ MailHandler(p)
        \/ UpstreamReply(p)
        \/ LoggerWrite(p)
        \/ Finish(p)

SpecQuota == InitLimiter /\ [][NextQuota]_vars

\* The steps the gateway takes by itself once a request is in: every handler of
\* the stack and the write of the response. The Go scheduler runs a runnable
\* goroutine, so each is taken once it is enabled; the reply of an upstream is
\* not among them (proxy.Do is called with no timeout and fiber.Config sets
\* none).
GatewayStep(p) ==
    \/ Helmet(p)
    \/ Cors(p)
    \/ Logger(p)
    \/ LimiterLock(p)
    \/ LimiterGet(p)
    \/ LimiterSet(p)
    \/ LimiterUnlock(p)
    \/ Filesystem(p)
    \/ AuthMiddleware(p)
    \/ WaHandler(p)
    \/ MailHandler(p)
    \/ StatusHandler(p)
    \/ NoRoute(p)
    \/ LoggerWrite(p)
    \/ Finish(p)

\* The pipeline of Spec in the default deployment, with the gateway's own steps
\* scheduled fairly.
SpecFair == InitLimiter /\ [][Next]_vars /\ WF_vars(GatewayStep(1))

-----------------------------------------------------------------------------
(* Vocabulary of the properties *)

Min(a, b) == IF a < b THEN a ELSE b

\* The chain of the request has ended: the answer is decided.
Returned == {"logging", "done"}

LaterStages == {"static", "auth", "wa", "mail", "proxy", "status"}

\* The limiter has decided about the request in slot p.
PastLimiter(p) ==
    /\ "limiter" \in invoked[p]
    /\ pc[p] \notin {"lim_get", "lim_set", "lim_unlock"}

\* The limiter answered the request in slot p itself.
LimiterRejected(p) == resp[p].body.kind = "too_many"

Admitted(p) == PastLimiter(p) /\ ~LimiterRejected(p)

UnderV1(path) == HasPrefix(path, PrefixV1 \o Slash)

\* The request in slot p passed authMiddleware.
Authenticated(p) ==
    /\ "auth" \in invoked[p]
    /\ resp[p].body.kind # "denied"

\* Requests of client c the limiter has counted and not yet decided.
Pending(c) ==
    Cardinality({p \in Slots : req[p].client = c
                               /\ pc[p] \in {"lim_set", "lim_unlock"}})

\* The statuses by which a gateway reports that it could not reach its upstream.
BadGatewayClass == {502, 503, 504}

\* proxy.Do failed for the request in slot p (the response is the gateway's).
ProxyFailed(p) ==
    /\ "proxy" \in invoked[p]
    /\ resp[p].body.kind = "error"

\* The gateway itself refused the request in slot p: authMiddleware did, or the
\* limiter.
Rejected(p) == resp[p].body.kind \in {"denied", "too_many"}

-----------------------------------------------------------------------------
(* Properties *)

\* C1: for every client address, the limiter lets a request pass when it is at
\* most the 50th the client made in its current 60-second window, and answers
\* 429 to the 51st and to every later one of that window.
C1_AdmitsUpToMaxPerWindow ==
    \A p \in Slots :
        PastLimiter(p) =>
            /\ quota[p] # "none"
            /\ quota[p] = "within" =>
                   /\ ~LimiterRejected(p)
                   /\ (pc[p] = "static" \/ "static" \in invoked[p])
            /\ quota[p] = "over" =>
                   /\ LimiterRejected(p)
                   /\ resp[p].status = StatusTooManyRequests
                   /\ pc[p] \in Returned

\* The 51st request of a window, made 59 seconds after the first, is refused,
\* while the other client is at its 50th.
C1_Witness ==
    /\ pc[1] = "done"
    /\ LimiterRejected(1)
    /\ quota[1] = "over"
    /\ req[1].client = "ipA"
    /\ gCount["ipA"] = Max + 1
    /\ now = Expiration - 1
    /\ gStart["ipA"] = 0
    /\ gCount["ipB"] = Max
    /\ gAdmitted["ipB"] = Max

\* C2 (as claimed): a request under /v1/ that the limiter let pass and whose
\* X-RIZ-KEY is missing or differs from the secret is answered 401, and the
\* proxy forwarder is not invoked for it.
C2_BadKeyIs401 ==
    \A p \in Slots :
        ( /\ pc[p] = "done"
          /\ Admitted(p)
          /\ UnderV1(req[p].path)
          /\ (req[p].key = "" \/ req[p].key # cfg.secret) )
        => /\ resp[p].status = StatusUnauthorized
           /\ "proxy" \notin invoked[p]

\* C3: an authenticated request to /v1/wa/<rest> (/v1/mail/<rest>) is handed to
\* the proxy forwarder with target WA_SERVICE_URL + "/" + <rest>
\* (MAIL_SERVICE_URL + "/" + <rest>), its method and body unchanged.
C3_TargetIsBasePlusRest ==
    \A p \in Slots :
        LET path == req[p].path
            base == IF HasPrefix(path, PrefixWa) THEN cfg.wa ELSE cfg.mail
            \* "/v1/wa/" and "/v1/mail/" are five tokens each
            rest == SubSeq(path, 6, Len(path))
        IN  ( /\ Authenticated(p)
              /\ pc[p] \in {"proxying", "done"}
              /\ HasPrefix(path, PrefixWa) \/ HasPrefix(path, PrefixMail) )
            => /\ "proxy" \in invoked[p]
               /\ fwd[p].uri = base \o <<"/">> \o rest
               /\ fwd[p].method = req[p].method
               /\ fwd[p].body = req[p].body

\* A POST to /v1/wa/foo/bar with the right key was forwarded to
\* http://wa/foo/bar with its body.
C3_Witness ==
    /\ pc[1] = "done"
    /\ req[1].path = PathWa
    /\ req[1].method = "POST"
    /\ "proxy" \in invoked[1]
    /\ fwd[1] = [uri |-> <<"http://wa", "/", "foo", "/", "bar">>,
                 method |-> "POST", body |-> "payload"]

\* C4 (as claimed): the target handed to the proxy forwarder carries the query
\* string of the inbound request.
C4_QueryPreserved ==
    \A p \in Slots :
        "proxy" \in invoked[p] => QueryOf(fwd[p].uri) = req[p].query

\* C5 (as claimed): a GET /status the limiter let pass is answered 200 with the
\* status document, whatever the key and whatever the file server did; stated
\* here for the deployments whose embedded tree has no file named status, where
\* the file server passes the request on.
C5_StatusIs200 ==
    \A p \in Slots :
        ( /\ pc[p] = "done"
          /\ Admitted(p)
          /\ req[p].method = "GET"
          /\ req[p].path = PathStatus
          /\ PathStatus \notin cfg.bundle )
        => resp[p] = [status |-> StatusOK,
                      body |-> [kind |-> "status_json", of |-> <<>>]]

\* C6 (as claimed): with WA_SERVICE_URL unset, a request to /v1/wa/* never has
\* the proxy forwarder invoked with a relative (empty-base) target.
C6_NoRelativeTarget ==
    \A p \in Slots :
        ( /\ cfg.wa = <<>>
          /\ HasPrefix(req[p].path, PrefixWa) )
        => /\ "proxy" \notin invoked[p]
           /\ fwd[p] = NoCall

\* C7 (as claimed): an admitted GET outside /v1 (and not /status) for a path that
\* is no bundled file and has no extension is answered 200 with the index
\* document.
C7_SpaFallback ==
    \A p \in Slots :
        ( /\ pc[p] = "done"
          /\ Admitted(p)
          /\ req[p].method = "GET"
          /\ req[p].path = PathDashboard
          /\ PathDashboard \notin cfg.bundle )
        => resp[p] = [status |-> StatusOK,
                      body |-> [kind |-> "file", of |-> IndexFile]]

\* C8: a request the limiter refuses is answered 429 at once and none of the
\* file server, the authenticator, the proxy forwarder and the /status handler
\* runs for it; a request at or past one of them was let pass by the limiter.
C8_RejectSkipsLaterStages ==
    \A p \in Slots :
        /\ LimiterRejected(p) =>
               /\ pc[p] \in Returned
               /\ resp[p].status = StatusTooManyRequests
               /\ invoked[p] \cap LaterStages = {}
        /\ ( \/ invoked[p] \cap LaterStages # {}
             \/ pc[p] \in LaterStages \cup {"proxying", "noroute"} )
           => /\ PastLimiter(p)
              /\ ~LimiterRejected(p)
              /\ quota[p] = "within"

\* A GET /status is the 51st request of its window and is answered 429 with
\* only helmet, cors, logger and the limiter run.
C8_Witness ==
    /\ pc[1] = "done"
    /\ req[1].path = PathStatus
    /\ req[1].method = "GET"
    /\ LimiterRejected(1)
    /\ gCount[req[1].client] = Max + 1
    /\ invoked[1] = {"helmet", "cors", "logger", "limiter"}

\* C9 (as claimed): an admitted request outside /v1 skips the authenticator and
\* goes to the file server; an admitted request under /v1 goes to the
\* authenticator and is never answered by the file server.
C9_ExclusiveDispatch ==
    \A p \in Slots :
        (pc[p] = "done" /\ Admitted(p)) =>
            IF UnderV1(req[p].path)
            THEN /\ "auth" \in invoked[p]
                 /\ resp[p].body.kind # "file"
            ELSE /\ "auth" \notin invoked[p]
                 /\ "static" \in invoked[p]

\* C10: concurrent requests of one client address in one window lose no
\* increment: once none is between its count and its decision, the stored count
\* is the number of requests, exactly min(N, 50) of them were let pass and the
\* others were refused.
C10_NoLostUpdate ==
    \A c \in Clients :
        /\ gAdmitted[c] <= Max
        /\ gAdmitted[c] + gRejected[c] + Pending(c) = gCount[c]
        /\ Pending(c) = 0 =>
               /\ store[c].hits = gCount[c]
               /\ gAdmitted[c] = Min(gCount[c], Max)
               /\ gRejected[c] = gCount[c] - Min(gCount[c], Max)

\* The 51st request holds the limiter's mutex while another connection of the
\* same client waits for it; 50 were let pass.
C10_Witness ==
    /\ pc[1] = "lim_unlock"
    /\ quota[1] = "over"
    /\ gCount["ipA"] = Max + 1
    /\ pc[2] = "limiter"
    /\ req[2].client = req[1].client
    /\ gAdmitted["ipA"] = Max

\* C11 (as claimed): every request that came in is eventually answered, also
\* when the upstream never answers the call the proxy forwarder made for it.
C11_EventuallyResponded ==
    \A p \in Slots : (pc[p] # "idle") ~> (pc[p] = "done")

\* C12 (as claimed): when the call to the upstream fails (upstream unreachable,
\* malformed target), the client is answered with a 502-class status, which no
\* relayed answer of the model's upstreams but 503 carries.
C12_UnreachableIsBadGateway ==
    \A p \in Slots :
        (pc[p] = "done" /\ ProxyFailed(p)) => resp[p].status \in BadGatewayClass

\* C13: authMiddleware lets a request pass exactly when its X-RIZ-KEY is not
\* empty and equals RIZ_SECRET_KEY; an empty key or an empty secret is always
\* rejected with 401, the proxy forwarder is only ever invoked for a request
\* that passed, and never at all when RIZ_SECRET_KEY is unset.
C13_PassIffKeyMatches ==
    \A p \in Slots :
        /\ "auth" \in invoked[p] =>
               /\ Authenticated(p) <=>
                      (req[p].key # "" /\ req[p].key = cfg.secret)
               /\ ~Authenticated(p) =>
                      /\ pc[p] \in Returned
                      /\ resp[p].status = StatusUnauthorized
        /\ (req[p].key = "" \/ cfg.secret = "") => ~Authenticated(p)
        /\ "proxy" \in invoked[p] =>
               /\ Authenticated(p)
               /\ req[p].key = cfg.secret
               /\ cfg.secret # ""
        /\ cfg.secret = "" => (fwd[p] = NoCall /\ pc[p] # "proxying")

\* RIZ_SECRET_KEY is unset and a request to /v1/mail/send without X-RIZ-KEY (so
\* that key == secret) has been answered 401 by authMiddleware.
C13_Witness ==
    /\ cfg.secret = ""
    /\ req[1].key = ""
    /\ req[1].path = PathMail
    /\ pc[1] = "done"
    /\ "auth" \in invoked[1]
    /\ resp[1].status = StatusUnauthorized
    /\ "proxy" \notin invoked[1]

\* C14: a request whose body is larger than 2 MiB is answered 413 without any
\* handler of the stack running for it: not the limiter, the file server, the
\* authenticator or a proxy handler, and no call is made to an upstream.
C14_OversizedRejectedFirst ==
    \A p \in Slots :
        req[p].size > 2 * 1024 * 1024 =>
            /\ pc[p] = "done"
            /\ resp[p].status = StatusRequestEntityTooLarge
            /\ invoked[p] = {}
            /\ fwd[p] = NoCall

\* A POST to /v1/wa/foo/bar with the right key and a body of 2 MiB + 1 byte has
\* been answered 413.
C14_Witness ==
    /\ pc[1] = "done"
    /\ req[1].method = "POST"
    /\ req[1].path = PathWa
    /\ req[1].key = cfg.secret
    /\ cfg.secret # ""
    /\ req[1].size = 2 * 1024 * 1024 + 1
    /\ resp[1].status = StatusRequestEntityTooLarge
    /\ invoked[1] = {}

\* C15: a client's window is opened by the first request the limiter counts for
\* it and lasts 60 seconds: the stored entry always holds the number of requests
\* of the window open now and expires 60 seconds after that window's first
\* request; a request that arrives when the stored window has elapsed is
\* counted as the first of a new one and is let pass, also when the client had
\* used up the old window.
C15_WindowExpiresAfterOneMinute ==
    /\ \A c \in Clients :
           (\A p \in Slots : ~(req[p].client = c /\ pc[p] = "lim_set")) =>
               IF gStart[c] = NoTime
               THEN store[c] = NoEntry
               ELSE store[c] = [hits |-> gCount[c],
                                exp |-> gStart[c] + Expiration]
    /\ \A p \in Slots :
           LET c == req[p].client
           IN  /\ pc[p] = "lim_set" =>
                      /\ e[p] = [hits |-> gCount[c],
                                 exp |-> gStart[c] + Expiration]
                      /\ IF store[c].exp = 0 \/ gStart[c] >= store[c].exp
                         THEN e[p].hits = 1
                         ELSE /\ e[p].hits = store[c].hits + 1
                              /\ e[p].exp = store[c].exp
               /\ (PastLimiter(p) /\ store[c].hits = 1) => ~LimiterRejected(p)

\* Sixty seconds after its first request, a client whose window holds 51
\* requests (the 51st was refused) makes a request: it is counted as the first
\* of a window that ends at 120.
C15_Witness ==
    /\ now = Expiration
    /\ pc[1] = "lim_set"
    /\ req[1].client = "ipA"
    /\ store["ipA"] = [hits |-> Max + 1, exp |-> Expiration]
    /\ e[1] = [hits |-> 1, exp |-> 2 * Expiration]
    /\ quota[1] = "within"

C17_OneLogLinePerRejection ==
    \A p \in Slots :
        (pc[p] = "done" /\ Rejected(p)) =>
            /\ resp[p].status \in {StatusUnauthorized, StatusTooManyRequests}
            /\ Len(logs[p]) = 1
            /\ resp[p].status = StatusUnauthorized =>
                   logs[p][1] = AlertLine(req[p])

\* C18: the limiter counts a request before authMiddleware sees it, so a request
\* answered 401 has used one of the 50 places of its client's window, and a
\* request beyond the 50th of the window is answered 429 without authMiddleware
\* or a proxy handler running for it, whatever key it carries.
C18_DeniedRequestsUseQuota ==
    /\ \A p \in Slots :
           /\ resp[p].body.kind = "denied" =>
                  /\ "limiter" \in invoked[p]
                  /\ quota[p] = "within"
                  /\ store[req[p].client].hits >= 1
           /\ (PastLimiter(p) /\ quota[p] = "over") =>
                  /\ pc[p] \in Returned
                  /\ resp[p].status = StatusTooManyRequests
                  /\ "auth" \notin invoked[p]
                  /\ calls[p] = 0
    /\ \A c \in Clients :
           /\ gAdmitted[c] <= Max
           /\ Pending(c) = 0 => store[c].hits = gCount[c]

\* The 51st request of the window carries the right key and is answered 429,
\* authMiddleware not run, while a request of the same window that was let pass
\* by the limiter and answered 401 is still being written on another connection.
C18_Witness ==
    /\ pc[1] = "done"
    /\ req[1].key = cfg.secret
    /\ cfg.secret # ""
    /\ quota[1] = "over"
    /\ resp[1].status = StatusTooManyRequests
    /\ "auth" \notin invoked[1]
    /\ gCount["ipA"] = Max + 1
    /\ gAdmitted["ipA"] = Max
    /\ pc[2] = "done"
    /\ req[2].client = req[1].client
    /\ quota[2] = "within"
    /\ resp[2].status = StatusUnauthorized

\* C19: the limiter keeps one entry per client address: a step taken while no
\* request of client c is being served leaves c's count and window end as they
\* were, and a request is only ever refused when its own client has made more
\* than 50 requests in its own window.
C19_ClientsIsolated ==
    [][ /\ \A c \in Clients :
              (\A p \in Slots : req[p].client # c) => store'[c] = store[c]
        /\ \A p \in Slots :
              (pc'[p] \in Returned /\ resp'[p].body.kind = "too_many") =>
                  gCount'[req'[p].client] > Max
      ]_vars

\* Client ipA has used up its window (51 requests, the last refused); in the
\* same second the first request of client ipB is let pass, and ipA's entry is
\* as its own requests left it.
C19_Witness ==
    /\ now = 0
    /\ store["ipA"] = [hits |-> Max + 1, exp |-> Expiration]
    /\ gRejected["ipA"] = 1
    /\ req[1].client = "ipB"
    /\ pc[1] = "done"
    /\ PastLimiter(1)
    /\ ~LimiterRejected(1)
    /\ store["ipB"] = [hits |-> 1, exp |-> Expiration]

====
